---- MODULE Spec2Model ----
(***************************************************************************)
(* Model of TransfermarktScraper (src/scraper.py): scrape = _build_url ;   *)
(* _get_page_soup (retry loop) ; _soup_to_df, and the pure helpers of      *)
(* clean (_get_fee_and_loan_status, _parse_currency).                      *)
(***************************************************************************)
EXTENDS Integers, Sequences, FiniteSets, TLC

VARIABLES pc, season, window, max_retries, url, attempt, sleep_time, log,
          page, dfs, result, err, row, record

vars == <<pc, season, window, max_retries, url, attempt, sleep_time, log,
          page, dfs, result, err, row, record>>

fetchVars == <<season, window, max_retries, url, attempt, sleep_time, log>>
parseVars == <<page, dfs, result>>
cleanVars == <<row, record>>

\* ---------------------------------------------------------------- bounds
MaxRetries == 3
MaxClubs == 2
MaxTables == 4
MaxRows == 4
PipelineRows == 2
MaxTail == 4

\* Python's None: as an error, as a number, as an object, as a list not built.
None == "None"
Unset == 0 - 1
Absent == [absent |-> TRUE]
NoFrames == << >>

\* ------------------------------------------------------- program constants
\* random.uniform(2, 5), in whole seconds.
SleepLow == 2
SleepHigh == 5
\* A row with at most this many cells is the "no transfers" placeholder.
NoTransferCells == 1
\* Cells of a transfer row (keys 0..8 of parse_col_index).
TransferCells == 9
\* leihe=3 includes loans but excludes ends of loans.
LoansWithoutReturns == 3

League == "premier-league"

\* ------------------------------------------------------------ scrape inputs
\* Seasons are given in tenths of a year, so that 20205 is the year 2020.5.
SeasonScale == 10
Seasons == {20200, 20205}
Windows == {"s", "w", "x"}

\* float(season).is_integer()
IsInteger(s) == s % SeasonScale = 0

\* A variant that lets the code 'x' through.
ValidWindowMutant(w) == w \in {"s", "w", "x"}
\* window not in ('s', 'w')
ValidWindow(w) == w \in {"s", "w"}

\* _build_url: the ValueError it raises, or the URL (its query parameters).
BuildUrl(s, w, loans, internal) ==
    IF ~IsInteger(s) THEN [err |-> "ValueError: Season must be a year.", url |-> Absent]
    ELSE IF ~ValidWindow(w)
         THEN [err |-> "ValueError: Window must be one of 's' or 'w'.", url |-> Absent]
         ELSE [err |-> None,
               url |-> [saison_id |-> s, s_w |-> w,
                        leihe |-> IF loans THEN LoansWithoutReturns ELSE 0,
                        intern |-> IF internal THEN 1 ELSE 0]]

\* ------------------------------------------------------------------ pages
\* A table is the sequence of its body rows, each row given by its number of
\* cells; a page is the club headings and the tables, in document order.
\* Tables(n): the tables of at most n rows.
Tables(n) ==
    UNION {[1..k -> {NoTransferCells, TransferCells}] : k \in 0..n}

RECURSIVE Sum(_)
Sum(sz) == IF sz = << >> THEN 0 ELSE Head(sz) + Sum(Tail(sz))

\* The rows flat cut into tables of the sizes sz.
Cut(flat, sz) ==
    [i \in 1..Len(sz) |->
        SubSeq(flat, Sum(SubSeq(sz, 1, i - 1)) + 1, Sum(SubSeq(sz, 1, i)))]

\* TableSeqs(n, rows): the sequences of n tables with at most rows rows in all.
TableSeqs(n, rows) ==
    UNION {{Cut(flat, sz) : flat \in [1..Sum(sz) -> {NoTransferCells, TransferCells}]} :
              sz \in {z \in [1..n -> 0..rows] : Sum(z) <= rows}}

Pages(maxClubs, maxTables, maxRows) ==
    {[clubs |-> [k \in 1..c |-> k], tables |-> ts] :
        c \in 0..maxClubs,
        ts \in UNION {TableSeqs(n, maxRows) : n \in 0..maxTables}}

\* The pages a request may return, and the pages _soup_to_df is applied to.
PipelinePages == Pages(MaxClubs, MaxTables, PipelineRows)
ExtractPages == Pages(MaxClubs, MaxTables, MaxRows)

Min(a, b) == IF a < b THEN a ELSE b

\* for row in table.tbody.find_all('tr'): if len(tds) <= 1: break
\* The number of rows read before the first placeholder row.
RECURSIVE RowsReadFrom(_, _)
RowsReadFrom(table, j) ==
    IF j > Len(table) \/ table[j] <= NoTransferCells THEN j - 1
    ELSE RowsReadFrom(table, j + 1)

RowsRead(table) == RowsReadFrom(table, 1)

\* The data frame of the table at 0-based position i: one record per row
\* read, with the season, league and window columns inserted.
TableDf(pg, i, s, w) ==
    [j \in 1..RowsRead(pg.tables[i + 1]) |->
        [season |-> s, league |-> League, window |-> w, player |-> <<i, j>>]]

\* A variant with the parity swapped.
IsInTableMutant(i) == i % 2 = 1
\* if i % 2 == 0: dfs_in.append(df) else: dfs_out.append(df)
IsInTable(i) == i % 2 = 0

RECURSIVE Split(_, _, _, _, _, _)
Split(pg, i, s, w, dfs_in, dfs_out) ==
    IF i >= Len(pg.tables) THEN [dfs_in |-> dfs_in, dfs_out |-> dfs_out]
    ELSE IF IsInTable(i)
         THEN Split(pg, i + 1, s, w, Append(dfs_in, TableDf(pg, i, s, w)), dfs_out)
         ELSE Split(pg, i + 1, s, w, dfs_in, Append(dfs_out, TableDf(pg, i, s, w)))

\* df.insert(loc=2, column='club', ...); df.insert(loc=4, column='movement', ...)
Tag(df, club, movement) ==
    [j \in 1..Len(df) |->
        [season |-> df[j].season, league |-> df[j].league, club |-> club,
         window |-> df[j].window, movement |-> movement, player |-> df[j].player]]

\* zip(clubs, dfs_in, dfs_out) stops at the shortest of the three.
ZipLen(clubs, dfs_in, dfs_out) == Min(Len(clubs), Min(Len(dfs_in), Len(dfs_out)))

\* for club, df_in, df_out in zip(...): for df, movement in (in, out): dfs.append
Merge(clubs, dfs_in, dfs_out) ==
    [n \in 1..(2 * ZipLen(clubs, dfs_in, dfs_out)) |->
        IF n % 2 = 1 THEN Tag(dfs_in[(n + 1) \div 2], clubs[(n + 1) \div 2], "in")
        ELSE Tag(dfs_out[n \div 2], clubs[n \div 2], "out")]

RECURSIVE Concat(_)
Concat(frames) ==
    IF frames = <<>> THEN <<>> ELSE Head(frames) \o Concat(Tail(frames))

\* Two variants: one that also rejects a page whose tables are not two per
\* club, one that rejects a page only when both lists are empty.
UnrecognizedStrict(pg) ==
    pg.clubs = <<>> \/ pg.tables = <<>> \/ Len(pg.tables) # 2 * Len(pg.clubs)
UnrecognizedMutant(pg) == pg.clubs = <<>> /\ pg.tables = <<>>
\* if not clubs or not tables: raise ValueError(...)
Unrecognized(pg) == pg.clubs = <<>> \/ pg.tables = <<>>

\* _soup_to_df: the error it raises, the list dfs and the concatenated frame.
SoupToDf(pg, s, w) ==
    IF Unrecognized(pg)
    THEN [err |-> "ValueError: Page structure not recognized.",
          dfs |-> NoFrames, result |-> NoFrames]
    ELSE LET sp == Split(pg, 0, s, w, <<>>, <<>>)
             merged == Merge(pg.clubs, sp.dfs_in, sp.dfs_out)
         IN  IF merged = <<>>
             THEN [err |-> "ValueError: No objects to concatenate",
                   dfs |-> merged, result |-> NoFrames]
             ELSE [err |-> None, dfs |-> merged, result |-> Concat(merged)]

\* ------------------------------------------------------------- the pipeline
Outcomes == {"ok", "RequestError", "HTTPStatusError"}
Failures == {"RequestError", "HTTPStatusError"}

Requests(l) == Len(SelectSeq(l, LAMBDA e : e \in Outcomes))
Failed(l) == Len(SelectSeq(l, LAMBDA e : e \in Failures))
Sleeps(l) == Len(SelectSeq(l, LAMBDA e : e = "sleep"))

\* A variant that runs the loop once more.
InRangeMutant(a, n) == a <= n
\* for attempt in range(max_retries)
InRange(a, n) == a < n

Init ==
    /\ pc = "idle"
    /\ season = Unset /\ window = None /\ max_retries = Unset /\ url = Absent
    /\ attempt = Unset /\ sleep_time = Unset /\ log = <<>>
    /\ page = Absent /\ dfs = NoFrames /\ result = NoFrames
    /\ err = None
    /\ row = Absent /\ record = Absent

\* scrape(season, window, loans, internal, max_retries) up to the first
\* request: _build_url, then the entry of the loop of _get_page_soup.
Scrape ==
    /\ pc = "idle"
    /\ \E s \in Seasons, w \in Windows, loans \in BOOLEAN, internal \in BOOLEAN,
          n \in 0..MaxRetries :
          LET b == BuildUrl(s, w, loans, internal) IN
          /\ season' = s /\ window' = w /\ max_retries' = n
          /\ url' = b.url
          /\ IF b.err # None
             THEN /\ err' = b.err /\ pc' = "raised" /\ attempt' = attempt
             ELSE /\ err' = err
                  /\ attempt' = 0
                  /\ pc' = IF InRange(0, n) THEN "request" ELSE "loop_else"
    /\ UNCHANGED <<sleep_time, log, parseVars, cleanVars>>

\* One self._client.get + raise_for_status; on success the soup is returned
\* (the locals of _get_page_soup are gone) and _soup_to_df runs on it.
Request ==
    /\ pc = "request"
    /\ \E o \in Outcomes :
          /\ log' = Append(log, o)
          /\ IF o = "ok"
             THEN /\ \E pg \in PipelinePages : page' = pg
                  /\ attempt' = Unset /\ sleep_time' = Unset
                  /\ pc' = "parse"
             ELSE /\ page' = page
                  /\ UNCHANGED <<attempt, sleep_time>>
                  /\ pc' = "sleep"
    /\ UNCHANGED <<season, window, max_retries, url, dfs, result, err, cleanVars>>

\* sleep_time = random.uniform(2, 5) * (attempt + 1); time.sleep(sleep_time);
\* then the loop advances.
Sleep ==
    /\ pc = "sleep"
    /\ \E base \in SleepLow..SleepHigh : sleep_time' = base * (attempt + 1)
    /\ log' = Append(log, "sleep")
    /\ attempt' = attempt + 1
    /\ pc' = IF InRange(attempt + 1, max_retries) THEN "request" ELSE "loop_else"
    /\ UNCHANGED <<season, window, max_retries, url, parseVars, err, cleanVars>>

\* for ... else: raise RuntimeError(f"All {max_retries} attempts failed ...")
Exhausted ==
    /\ pc = "loop_else"
    /\ err' = "RuntimeError: All attempts failed"
    /\ pc' = "raised"
    /\ attempt' = Unset /\ sleep_time' = Unset
    /\ UNCHANGED <<season, window, max_retries, url, log, parseVars, cleanVars>>

\* df = self._soup_to_df(soup, season, window); return df
Extract ==
    /\ pc = "parse"
    /\ LET r == SoupToDf(page, season, window) IN
          /\ dfs' = r.dfs /\ result' = r.result
          /\ IF r.err # None
             THEN err' = r.err /\ pc' = "raised"
             ELSE err' = err /\ pc' = "returned"
    /\ UNCHANGED <<fetchVars, page, cleanVars>>

Next == Scrape \/ Request \/ Sleep \/ Exhausted \/ Extract

Spec == Init /\ [][Next]_vars

\* ------------------------------------------------- _soup_to_df on its own
\* scrape just after the first request succeeded, for every page within the
\* bounds.
InitExtract ==
    /\ pc = "parse"
    /\ season = 20200 /\ window \in {"s", "w"} /\ max_retries = 1
    /\ url = BuildUrl(20200, window, TRUE, FALSE).url
    /\ attempt = Unset /\ sleep_time = Unset /\ log = <<"ok">>
    /\ page \in ExtractPages
    /\ dfs = NoFrames /\ result = NoFrames
    /\ err = None
    /\ row = Absent /\ record = Absent

NextExtract == Extract

SpecExtract == InitExtract /\ [][NextExtract]_vars

\* The string literals of clean and the example texts, character by character.
STR_DASH_QUESTION ==
    <<"-", "?">>
STR_FREE_TRANSFER ==
    <<"f", "r", "e", "e", " ", "t", "r", "a", "n", "s", "f", "e", "r">>
STR_LOAN_TRANSFER ==
    <<"l", "o", "a", "n", " ", "t", "r", "a", "n", "s", "f", "e", "r">>
STR_END_OF_LOAN ==
    <<"e", "n", "d", " ", "o", "f", " ", "l", "o", "a", "n">>
STR_LOAN_FEE ==
    <<"l", "o", "a", "n", " ", "f", "e", "e">>
STR_LOAN_FEE_COLON ==
    <<"l", "o", "a", "n", " ", "f", "e", "e", ":">>
STR_LOAN_FEE_UPPER ==
    <<"L", "o", "a", "n", " ", "f", "e", "e", ":">>
EX_1_5M ==
    <<"€", "1", ".", "5", "m">>
EX_750K ==
    <<"€", "7", "5", "0", "k">>
EX_2M ==
    <<"€", "2", "m">>
EX_5M ==
    <<"€", "5", "m">>
EX_1000 ==
    <<"€", "1", "0", "0", "0">>
EX_5BN ==
    <<"€", "5", "b", "n">>
EX_LOAN_FEE_300K ==
    <<"l", "o", "a", "n", " ", "f", "e", "e", ":", " ", "€", "3", "0", "0", "k">>
EX_LOAN_FEE_300K_NOSPACE ==
    <<"L", "o", "a", "n", " ", "f", "e", "e", ":", "€", "3", "0", "0", "k">>
EX_FREE_UPPER ==
    <<"F", "r", "e", "e", " ", "t", "r", "a", "n", "s", "f", "e", "r">>
EX_END_OF_LOAN_UPPER ==
    <<"E", "n", "d", " ", "o", "f", " ", "l", "o", "a", "n">>

\* x[1:]
Tail2(x) == IF x = <<>> THEN <<>> ELSE Tail(x)

\* ------------------------------------------------------------------- clean
\* A text is the sequence of its characters.
Digits == {"0", "1", "2", "3", "4", "5", "6", "7", "8", "9"}
DigitVal(c) ==
    CASE c = "0" -> 0 [] c = "1" -> 1 [] c = "2" -> 2 [] c = "3" -> 3
      [] c = "4" -> 4 [] c = "5" -> 5 [] c = "6" -> 6 [] c = "7" -> 7
      [] c = "8" -> 8 [] c = "9" -> 9

\* str.lower, on the letters the texts of the model contain.
ToLower(c) ==
    CASE c = "E" -> "e" [] c = "F" -> "f" [] c = "L" -> "l" [] c = "M" -> "m"
      [] c = "K" -> "k" [] OTHER -> c
Lower(x) == [i \in 1..Len(x) |-> ToLower(x[i])]

\* x in y, for two strings: x occurs in y as a substring.
InString(x, y) ==
    \E i \in 1..(Len(y) + 1) :
        i + Len(x) - 1 <= Len(y) /\ SubSeq(y, i, i + Len(x) - 1) = x

\* x.startswith(p)
StartsWith(x, p) == Len(x) >= Len(p) /\ SubSeq(x, 1, Len(p)) = p

\* x.split(':')[-1]: what follows the last colon, or all of x.
RECURSIVE AfterLastColonFrom(_, _)
AfterLastColonFrom(x, i) ==
    IF i = 0 THEN x
    ELSE IF x[i] = ":" THEN SubSeq(x, i + 1, Len(x))
         ELSE AfterLastColonFrom(x, i - 1)
AfterLastColon(x) == AfterLastColonFrom(x, Len(x))

\* The character class [0-9.]
IsNumChar(c) == c \in Digits \/ c = "."

\* Length of the longest prefix of x made of [0-9.] characters.
RECURSIVE NumRun(_, _)
NumRun(x, i) == IF i <= Len(x) /\ IsNumChar(x[i]) THEN NumRun(x, i + 1) ELSE i - 1

\* re.findall(r'[0-9.]+|[^0-9.]', x)
RECURSIVE FindAll(_)
FindAll(x) ==
    IF x = <<>> THEN <<>>
    ELSE IF IsNumChar(x[1])
         THEN LET n == NumRun(x, 1)
              IN  <<SubSeq(x, 1, n)>> \o FindAll(SubSeq(x, n + 1, Len(x)))
         ELSE <<SubSeq(x, 1, 1)>> \o FindAll(Tail(x))

\* Numbers are exact fractions n / d, d a power of ten.
Number(n, d) == [kind |-> "value", n |-> n, d |-> d]
NoneValue == [kind |-> "None"]
Raise(exc) == [kind |-> "raise", exc |-> exc]

RECURSIVE Pow10(_)
Pow10(k) == IF k = 0 THEN 1 ELSE 10 * Pow10(k - 1)

RECURSIVE DigitsValue(_)
DigitsValue(ds) ==
    IF ds = <<>> THEN 0 ELSE 10 * DigitsValue(SubSeq(ds, 1, Len(ds) - 1)) + DigitVal(ds[Len(ds)])

\* float(t) for a token t of FindAll: a run of digits with at most one point
\* and at least one digit is a number, any other token raises ValueError.
Float(t) ==
    LET points == {i \in 1..Len(t) : t[i] = "."}
        ds == SelectSeq(t, LAMBDA c : c \in Digits)
    IN  IF (\A i \in 1..Len(t) : IsNumChar(t[i])) /\ Cardinality(points) <= 1 /\ ds # <<>>
        THEN Number(DigitsValue(ds),
                    IF points = {} THEN 1 ELSE Pow10(Len(t) - (CHOOSE i \in points : TRUE)))
        ELSE Raise("ValueError")

\* multipliers = {'m': 1_000_000, 'k': 1_000}
Million == 1000000
Thousand == 1000
IsMultiplier(c) == c \in {<<"m">>, <<"k">>}
Multiplier(c) == IF c = <<"m">> THEN Million ELSE Thousand

\* len(tokens) == 1
SingleToken(tokens) == Len(tokens) = 1

\* _parse_currency
ParseCurrency(x) ==
    IF x = <<"-">> THEN NoneValue
    ELSE LET tokens == FindAll(Tail2(x)) IN
         IF SingleToken(tokens) THEN Float(tokens[1])
         ELSE IF tokens = <<>> THEN Raise("IndexError")
         ELSE LET amount == Float(tokens[1]) IN
              IF amount.kind = "raise" THEN amount
              ELSE IF ~IsMultiplier(tokens[2]) THEN Raise("KeyError")
              ELSE Number(amount.n * Multiplier(tokens[2]), amount.d)

Zero == Number(0, 1)
FeeAndLoan(fee, is_loan) ==
    IF fee.kind = "raise" THEN fee
    ELSE [kind |-> "pair", fee |-> fee, is_loan |-> is_loan]

\* _get_fee_and_loan_status
GetFeeAndLoanStatus(raw) ==
    LET x == Lower(raw) IN
    IF InString(x, STR_DASH_QUESTION) THEN FeeAndLoan(Zero, FALSE)
    ELSE IF x = STR_FREE_TRANSFER THEN FeeAndLoan(Zero, FALSE)
    ELSE IF x = STR_LOAN_TRANSFER \/ StartsWith(x, STR_END_OF_LOAN)
         THEN FeeAndLoan(Zero, TRUE)
    ELSE IF StartsWith(x, STR_LOAN_FEE)
         THEN FeeAndLoan(ParseCurrency(AfterLastColon(x)), TRUE)
    ELSE FeeAndLoan(ParseCurrency(x), FALSE)

\* astype(int) on the player_id and age columns.
AsInt(v) ==
    IF v = NoneValue THEN Raise("TypeError")
    ELSE IF v.kind = "value" THEN v
    ELSE IF v.text # <<>> /\ \A i \in 1..Len(v.text) : v.text[i] \in Digits
         THEN Number(DigitsValue(v.text), 1)
         ELSE Raise("ValueError")

\* LEAGUE_NAMES[self.league]
LeagueName == "Premier League"

\* clean, for a frame of one row: the first exception raised, or the record.
Clean(r) ==
    LET mv == ParseCurrency(r.market_value)
        fl == GetFeeAndLoanStatus(r.fee)
        pid == AsInt(r.player_id)
        age == AsInt(r.age)
    IN  IF mv.kind = "raise" THEN mv
        ELSE IF fl.kind = "raise" THEN fl
        ELSE IF pid.kind = "raise" THEN pid
        ELSE IF age.kind = "raise" THEN age
        ELSE [kind |-> "record",
              league |-> LeagueName,
              window |-> IF r.window = "s" THEN "summer" ELSE "winter",
              player_id |-> pid, age |-> age,
              market_value |-> mv, fee |-> fl.fee,
              is_loan |-> IF fl.is_loan THEN 1 ELSE 0]

\* The texts of the model: every text of at most n characters of Alphabet,
\* the same behind the fixed beginnings, and the examples.
Alphabet == {"-", "?", "€", "1", ".", "m", "k", " ", ":"}
Beginnings ==
    {STR_LOAN_FEE, STR_LOAN_FEE_COLON, STR_LOAN_FEE_UPPER, STR_END_OF_LOAN,
     STR_FREE_TRANSFER, STR_LOAN_TRANSFER}
Examples ==
    {EX_1_5M, EX_750K, EX_2M, EX_5M, EX_1000, EX_5BN, EX_LOAN_FEE_300K,
     EX_LOAN_FEE_300K_NOSPACE, EX_FREE_UPPER, EX_END_OF_LOAN_UPPER}
Text(t) == [kind |-> "text", text |-> t]
PlayerId == Number(12345, 1)
Row(mv, fee, w, pid, age) ==
    [market_value |-> mv, fee |-> fee, window |-> w, player_id |-> pid, age |-> age]

\* The rows clean is applied to: every market value text beside a plain fee,
\* every fee text beside a plain market value, and the other columns varied
\* beside the examples.
IsRow(r, n) ==
    \/ \E mv \in Examples \cup {<<"-">>}, fee \in Examples, w \in {"s", "w"},
          pid \in {PlayerId, NoneValue}, age \in {<<"2", "4">>, <<"-">>} :
          r = Row(mv, fee, w, pid, Text(age))
    \/ \E k \in 0..n : \E t \in [1..k -> Alphabet] :
          \/ r = Row(t, <<"-">>, "s", PlayerId, Text(<<"2", "4">>))
          \/ r = Row(<<"-">>, t, "s", PlayerId, Text(<<"2", "4">>))
    \/ \E b \in Beginnings, k \in 0..(n - 1) : \E u \in [1..k -> Alphabet] :
          r = Row(<<"-">>, b \o u, "s", PlayerId, Text(<<"2", "4">>))

InitClean ==
    /\ pc = "clean"
    /\ season = 20200 /\ window = None /\ max_retries = Unset /\ url = Absent
    /\ attempt = Unset /\ sleep_time = Unset /\ log = <<>>
    /\ page = Absent /\ dfs = NoFrames /\ result = NoFrames
    /\ err = None
    /\ IsRow(row, MaxTail) /\ record = Absent

\* df = tm.clean(df)
CleanRow ==
    /\ pc = "clean"
    /\ LET c == Clean(row) IN
          IF c.kind = "raise"
          THEN /\ err' = c.exc /\ pc' = "raised" /\ record' = record
          ELSE /\ err' = err /\ pc' = "cleaned" /\ record' = c
    /\ UNCHANGED <<fetchVars, parseVars, row>>

NextClean == CleanRow

SpecClean == InitClean /\ [][NextClean]_vars

\* ------------------------------------------------------------------ claims
StructuralError == "ValueError: Page structure not recognized."
ConcatError == "ValueError: No objects to concatenate"
ExhaustedError == "RuntimeError: All attempts failed"
Terminal == pc \in {"raised", "returned"}
Last(l) == l[Len(l)]

\* C1: _get_page_soup makes at most max_retries requests, a success is the
\* last request made and hands its page on, and the exhaustion error is
\* raised exactly when max_retries attempts were made and all of them failed.
C1_FetchBounded ==
    /\ pc # "idle" => Requests(log) <= max_retries
    /\ \A i \in 1..Len(log) : log[i] = "ok" => i = Len(log)
    /\ pc \in {"parse", "returned"} => (log # <<>> /\ Last(log) = "ok" /\ page # Absent)
    /\ err = ExhaustedError => pc = "raised"
    /\ (Terminal /\ url # Absent) =>
          (err = ExhaustedError <=>
              (Failed(log) = max_retries /\ Requests(log) = max_retries))

C1_Witness ==
    /\ pc = "raised" /\ err = ExhaustedError
    /\ max_retries = MaxRetries /\ Failed(log) = MaxRetries

C1_WitnessSuccess ==
    /\ pc = "returned" /\ max_retries = MaxRetries
    /\ Requests(log) = MaxRetries /\ Failed(log) = MaxRetries - 1

\* C2 (as stated): every sleep lies between two requests, so a fetch that
\* made k >= 1 requests has slept exactly k - 1 times when it ends, whether
\* by returning the page or by raising the exhaustion error.
C2_SleepsBetweenAttempts ==
    (pc \in {"parse", "returned", "raised"} /\ Requests(log) >= 1) =>
        /\ Sleeps(log) = Requests(log) - 1
        /\ Last(log) # "sleep"

\* C3: a scrape whose season is not an integral year or whose window is not
\* 's' or 'w' ends in the validation error of _build_url with no request
\* made, no sleep taken and no page fetched.
C3_ValidationFirst ==
    (pc # "idle" /\ (season % SeasonScale # 0 \/ window \notin {"s", "w"})) =>
        /\ pc = "raised"
        /\ err = IF season % SeasonScale # 0
                 THEN "ValueError: Season must be a year."
                 ELSE "ValueError: Window must be one of 's' or 'w'."
        /\ log = <<>> /\ url = Absent /\ page = Absent /\ result = NoFrames

C3_Witness ==
    /\ pc = "raised" /\ window = "x" /\ season = 20200
    /\ err = "ValueError: Window must be one of 's' or 'w'."

\* C4: with N >= 1 club headings and exactly 2N tables, _soup_to_df builds
\* exactly 2N row groups; group 2k holds exactly the rows read from table 2k
\* under club k and movement 'in', group 2k+1 the rows read from table 2k+1
\* under club k and movement 'out'; the frame returned is their concatenation.
GroupIs(df, pg, i, club, movement) ==
    /\ Len(df) = RowsRead(pg.tables[i + 1])
    /\ \A j \in 1..Len(df) :
          /\ df[j].player = <<i, j>>
          /\ df[j].club = club
          /\ df[j].movement = movement

C4_PairedByPosition ==
    (Terminal /\ page # Absent /\ Len(page.clubs) >= 1
        /\ Len(page.tables) = 2 * Len(page.clubs)) =>
        /\ pc = "returned" /\ err = None
        /\ Len(dfs) = Len(page.tables)
        /\ \A k \in 0..(Len(page.clubs) - 1) :
              /\ GroupIs(dfs[2 * k + 1], page, 2 * k, page.clubs[k + 1], "in")
              /\ GroupIs(dfs[2 * k + 2], page, 2 * k + 1, page.clubs[k + 1], "out")
        /\ result = Concat(dfs)
        /\ \A n \in 1..Len(result) :
              /\ result[n].club = page.clubs[(result[n].player[1] \div 2) + 1]
              /\ result[n].movement =
                    (IF result[n].player[1] % 2 = 0 THEN "in" ELSE "out")

C4_Witness ==
    /\ pc = "returned" /\ Len(page.clubs) = 2 /\ Len(page.tables) = 4
    /\ \A i \in 1..4 : Len(dfs[i]) >= 1
    /\ Len(result) >= 4

\* C5: a page with no club heading or no table ends in the structural error
\* of _soup_to_df: nothing is returned, and no request or sleep follows the
\* successful one.
C5_StructuralError ==
    (page # Absent /\ pc # "parse" /\ (Len(page.clubs) = 0 \/ Len(page.tables) = 0)) =>
        /\ pc = "raised" /\ err = StructuralError
        /\ result = NoFrames /\ dfs = NoFrames
        /\ Last(log) = "ok" /\ Requests(log) = Failed(log) + 1

C5_Witness ==
    /\ pc = "raised" /\ err = StructuralError
    /\ Len(page.clubs) = 0 /\ Len(page.tables) >= 2 /\ Failed(log) >= 1

\* C10: with c >= 1 headings and t >= 1 tables, t # 2c, _soup_to_df raises
\* no structural error; it builds groups for the first m = min(c, t div 2)
\* clubs only, from the tables before position 2m, and nothing of a later
\* table or club is in the output; if m = 0 it fails in pd.concat.
C10_SurplusDropped ==
    (Terminal /\ page # Absent /\ Len(page.clubs) >= 1 /\ Len(page.tables) >= 1
        /\ Len(page.tables) # 2 * Len(page.clubs)) =>
        LET m == Min(Len(page.clubs), Len(page.tables) \div 2) IN
        /\ err # StructuralError
        /\ m = 0 => (pc = "raised" /\ err = ConcatError /\ result = NoFrames)
        /\ m > 0 =>
              /\ pc = "returned" /\ err = None
              /\ Len(dfs) = 2 * m
              /\ \A k \in 0..(m - 1) :
                    /\ GroupIs(dfs[2 * k + 1], page, 2 * k, page.clubs[k + 1], "in")
                    /\ GroupIs(dfs[2 * k + 2], page, 2 * k + 1, page.clubs[k + 1], "out")
              /\ result = Concat(dfs)
              /\ \A n \in 1..Len(result) :
                    result[n].player[1] < 2 * m /\ result[n].club <= m

C10_Witness ==
    /\ pc = "returned" /\ Len(page.clubs) = 2 /\ Len(page.tables) = 3
    /\ Len(dfs) = 2 /\ RowsRead(page.tables[3]) >= 1 /\ Len(result) >= 2

\* A row whose outcome in clean is decided by its fee text alone, and one
\* whose outcome is decided by its market value text alone.
Cleaned == pc \in {"cleaned", "raised"}
PlainRest == row.player_id = PlayerId /\ row.age = Text(<<"2", "4">>)
FeeRow == Cleaned /\ row.market_value = <<"-">> /\ PlainRest
MvRow == Cleaned /\ row.fee = <<"-">> /\ PlainRest
NumEq(v, k) == v.kind = "value" /\ v.n = k * v.d
Got(k, loan) == pc = "cleaned" /\ NumEq(record.fee, k) /\ record.is_loan = loan
\* The outcome of clean is that of the currency parser on x, with the flag.
GotParsed(x, loan) ==
    LET p == ParseCurrency(x) IN
    IF p.kind = "raise" THEN pc = "raised" /\ err = p.exc
    ELSE pc = "cleaned" /\ record.fee = p /\ record.is_loan = loan

\* C6 (as stated): the lowercased fee text selects one branch in the order
\* a-e: only '-' and '?' give (0, not loan) by branch a; 'free transfer'
\* gives (0, not loan); 'loan transfer' or a text starting with 'end of loan'
\* gives (0, loan); a text starting with 'loan fee' is a loan; every other
\* text goes to the currency parser and is not a loan.
C6_BranchPriority ==
    FeeRow =>
        LET x == Lower(row.fee) IN
        IF x \in {<<"-">>, <<"?">>} THEN Got(0, 0)
        ELSE IF x = STR_FREE_TRANSFER THEN Got(0, 0)
        ELSE IF x = STR_LOAN_TRANSFER \/ StartsWith(x, STR_END_OF_LOAN) THEN Got(0, 1)
        ELSE IF StartsWith(x, STR_LOAN_FEE) THEN (pc = "cleaned" => record.is_loan = 1)
        ELSE GotParsed(x, 0)

\* C7 (as stated): for a fee text starting with 'loan fee' the fee is the
\* currency value of what follows the last colon and is_loan is set; the
\* text "loan fee: €300k" gives (300000, loan) and does not fail.
C7_LoanFee ==
    (FeeRow /\ StartsWith(Lower(row.fee), STR_LOAN_FEE)) =>
        /\ GotParsed(AfterLastColon(Lower(row.fee)), 1)
        /\ row.fee = EX_LOAN_FEE_300K => Got(300000, 1)

\* C8 (as stated): in every record clean produces the fee is a number >= 0,
\* never absent; when is_loan is set and the text carries no amount (no
\* digit), the fee is 0.
C8_FeeResolved ==
    pc = "cleaned" =>
        /\ record.fee.kind = "value" /\ record.fee.n >= 0
        /\ (record.is_loan = 1 /\ \A i \in 1..Len(row.fee) : row.fee[i] \notin Digits)
              => NumEq(record.fee, 0)

\* C9 (as stated): _parse_currency gives None for '-'; otherwise it drops the
\* first character and gives the number, times 1,000,000 for a trailing 'm',
\* times 1,000 for a trailing 'k'; when what follows the number is anything
\* but nothing, 'm' or 'k', parsing fails and no value comes out.
C9_CurrencyGrammar ==
    MvRow =>
        LET x == row.market_value
            r == Tail2(x)
            n == NumRun(r, 1)
            num == Float(SubSeq(r, 1, n))
            rest == SubSeq(r, n + 1, Len(r))
            scale == IF rest = <<"m">> THEN Million
                     ELSE IF rest = <<"k">> THEN Thousand ELSE 1
        IN  /\ x = <<"-">> => (pc = "cleaned" /\ record.market_value = NoneValue)
            /\ x = EX_1_5M => (pc = "cleaned" /\ NumEq(record.market_value, 1500000))
            /\ x = EX_750K => (pc = "cleaned" /\ NumEq(record.market_value, 750000))
            /\ x = EX_2M => (pc = "cleaned" /\ NumEq(record.market_value, 2000000))
            /\ (x # <<"-">> /\ rest \notin {<<>>, <<"m">>, <<"k">>}) => pc = "raised"
            /\ (x # <<"-">> /\ rest \in {<<>>, <<"m">>, <<"k">>} /\ num.kind = "value") =>
                  (pc = "cleaned" /\ record.market_value = Number(num.n * scale, num.d))

====
